---- MODULE Spec2Model ----
(***************************************************************************)
(* A model of motd (main.py): a message is rendered onto the 7x52          *)
(* contribution grid, the grid is projected to calendar dates, the dates   *)
(* are previewed, and a git driver creates 17 empty commits per date.      *)
(*                                                                         *)
(* A datetime is an integer number of minutes; minute 0 is 2024-01-01      *)
(* 00:00, a Monday, so that weekday() is (day number) % 7 as in Python.    *)
(* A string is a sequence of one-character strings.  Python lists are      *)
(* functions on 0..n-1, glyph bitmaps are tuples (index + 1).              *)
(***************************************************************************)
EXTENDS Integers, Sequences, FiniteSets, TLC

VARIABLES
    message,        \* main's argument
    dry_run,        \* main's argument
    today,          \* datetime.now() of the current invocation
    start_date,     \* the anchor date (grid cell row 0, column 0)
    pc,             \* position of the control flow
    message_width,  \* word_to_matrix: calculate_message_width(message.upper())
    center_offset,  \* word_to_matrix: offset before the painting loop
    offset,         \* word_to_matrix: offset after the painting loop
    writes,         \* word_to_matrix: the list assignments of line 40, in order
    matrix,         \* the grid returned by word_to_matrix
    dates,          \* the list returned by matrix_to_dates
    preview,        \* visualize_dates: the matrix rebuilt from the dates
    printed,        \* visualize_dates: the seven lines printed
    status,         \* stdout of git status --porcelain
    first_commit,   \* stdout of git log, stripped and split
    vcs,            \* the git subprocesses started by this invocation, in order
    error,          \* the exception that ended the invocation, or "none"
    result,         \* the value main returned
    di,             \* create_git_contributions: index of the date of the outer loop
    hi,             \* create_git_contributions: index of the hour of the inner loop
    prev,           \* the previous invocation: its arguments and what it printed
    runs            \* number of invocations so far

vars == <<message, dry_run, today, start_date, pc, message_width,
          center_offset, offset, writes, matrix, dates, preview, printed,
          status, first_commit, vcs, error, result, di, hi, prev, runs>>

\* ------------------------------------------------------------------------
\* Bounds of the model
\* ------------------------------------------------------------------------
MaxLen  == 2    \* length of a message of the full pipeline
MaxHead == 1    \* rendering: characters before the run of H
NearRun == 6    \* rendering: a run of H that nearly fills the grid
WrapRun == 9    \* rendering: a run of H wider than the grid
MaxRun  == 27   \* rendering: the longest run of H
MaxTail == 1    \* rendering: characters after the run of H
MaxOn   == 2    \* date mapping: number of on cells of an arbitrary grid
MaxRuns == 2    \* invocations of main in one behaviour

\* ------------------------------------------------------------------------
\* Program constants
\* ------------------------------------------------------------------------
ROWS == 7
COLS == 52
GLYPH_ROWS == 5
MINUTES_PER_DAY == 1440
SUNDAY == 6
WEEKS_BACK == 51

Rows == 0 .. (ROWS - 1)
Cols == 0 .. (COLS - 1)

\* ------------------------------------------------------------------------
\* Strings
\* ------------------------------------------------------------------------
Chars == {"I", "L", "h", "?"}

\* str.upper(), character by character
ToUpper(c) == IF c = "h" THEN "H" ELSE c

Upper(s) == [k \in 1 .. Len(s) |-> ToUpper(s[k])]

Whitespace == {" ", "\n"}

RECURSIVE LStrip(_)
LStrip(s) ==
    IF s # <<>> /\ Head(s) \in Whitespace THEN LStrip(Tail(s)) ELSE s

RECURSIVE RStrip(_)
RStrip(s) ==
    IF s # <<>> /\ s[Len(s)] \in Whitespace
    THEN RStrip(SubSeq(s, 1, Len(s) - 1))
    ELSE s

\* str.strip()
Strip(s) == RStrip(LStrip(s))

\* str.split("\n"): the empty string gives one empty field
RECURSIVE SplitLines(_, _, _)
SplitLines(s, cur, acc) ==
    IF s = <<>> THEN Append(acc, cur)
    ELSE IF Head(s) = "\n" THEN SplitLines(Tail(s), <<>>, Append(acc, cur))
    ELSE SplitLines(Tail(s), Append(cur, Head(s)), acc)

Split(s) == SplitLines(s, <<>>, <<>>)

\* ------------------------------------------------------------------------
\* The glyph table (alphabet.ALPHABET): letter -> 5 rows of 0/1 columns
\* ------------------------------------------------------------------------
ALPHABET ==
    [c \in {"H", "I", "L"} |->
        CASE c = "H" -> << <<1, 0, 0, 0, 1>>,
                           <<1, 0, 0, 0, 1>>,
                           <<1, 1, 1, 1, 1>>,
                           <<1, 0, 0, 0, 1>>,
                           <<1, 0, 0, 0, 1>> >>
          [] c = "I" -> << <<1>>, <<1>>, <<1>>, <<1>>, <<1>> >>
          [] c = "L" -> << <<1, 0, 0, 0>>,
                           <<1, 0, 0, 0>>,
                           <<1, 0, 0, 0>>,
                           <<1, 0, 0, 0>>,
                           <<1, 1, 1, 1>> >>]

Recognized(letter) == letter \in DOMAIN ALPHABET

GlyphWidth(letter) == Len(ALPHABET[letter][1])

\* ------------------------------------------------------------------------
\* calculate_message_width
\* ------------------------------------------------------------------------
LetterWidthUnchecked(letter) ==
    IF Recognized(letter) THEN GlyphWidth(letter) + 1 ELSE 1

\* what one letter adds to the width: glyph width + spacing, if recognized
LetterWidth(letter) ==
    IF Recognized(letter) THEN GlyphWidth(letter) + 1 ELSE 0

RECURSIVE WidthLoop(_, _)
WidthLoop(msg, width) ==
    IF msg = <<>> THEN width
    ELSE WidthLoop(Tail(msg), width + LetterWidth(Head(msg)))

calculate_message_width(msg) == WidthLoop(msg, 0) - 1

\* ------------------------------------------------------------------------
\* word_to_matrix
\* ------------------------------------------------------------------------
EmptyMatrix == [row \in Rows |-> [col \in Cols |-> 0]]

CenterOffsetFloor(width) == (COLS - width) \div 2

\* offset = -((-52 + message_width) // 2)
CenterOffset(width) == 0 - (((0 - COLS) + width) \div 2)

\* The position a Python list of length n resolves index i to; -1 stands
\* for IndexError.
ListIndex(i, n) ==
    IF 0 <= i /\ i < n THEN i
    ELSE IF (0 - n) <= i /\ i < 0 THEN n + i
    ELSE -1

\* The two inner loops over one glyph, k = row * width + col.
RECURSIVE PaintLetter(_, _, _, _)
PaintLetter(st, i, letter, k) ==
    LET pattern == ALPHABET[letter]
        w   == Len(pattern[1])
        row == k \div w
        col == k % w
        idx == ListIndex(st.offset + col, COLS)
    IN  IF k = GLYPH_ROWS * w \/ st.error # "none" THEN st
        ELSE IF st.offset + col < COLS
        THEN IF idx = -1
             THEN [st EXCEPT !.error = "IndexError"]
             ELSE PaintLetter(
                    [st EXCEPT
                       !.matrix[row + 1][idx] = pattern[row + 1][col + 1],
                       !.writes = Append(@, [letter |-> i,
                                             start |-> st.offset,
                                             glyphRow |-> row,
                                             glyphCol |-> col,
                                             row |-> row + 1,
                                             col |-> idx,
                                             val |-> pattern[row + 1][col + 1]])],
                    i, letter, k + 1)
        ELSE PaintLetter(st, i, letter, k + 1)

\* The loop over the letters of the uppercased message.
RECURSIVE PaintMessage(_, _, _)
PaintMessage(st, msg, i) ==
    IF i > Len(msg) \/ st.error # "none" THEN st
    ELSE IF Recognized(msg[i])
    THEN LET painted == PaintLetter(st, i, msg[i], 0)
         IN  IF painted.error # "none" THEN painted
             ELSE PaintMessage(
                    [painted EXCEPT !.offset = @ + GlyphWidth(msg[i]) + 1],
                    msg, i + 1)
    ELSE PaintMessage(st, msg, i + 1)

word_to_matrix(m) ==
    LET msg   == Upper(m)
        width == calculate_message_width(msg)
        st0   == [matrix |-> EmptyMatrix,
                  offset |-> CenterOffset(width),
                  writes |-> <<>>,
                  error  |-> "none"]
        st    == PaintMessage(st0, msg, 1)
    IN  [matrix |-> st.matrix,
         message_width |-> width,
         center_offset |-> CenterOffset(width),
         offset |-> st.offset,
         writes |-> st.writes,
         error  |-> st.error]

\* ------------------------------------------------------------------------
\* Dates
\* ------------------------------------------------------------------------
\* timedelta(days = n)
Days(n) == n * MINUTES_PER_DAY

\* datetime.weekday(): Monday is 0
Weekday(dt) == (dt \div MINUTES_PER_DAY) % 7

\* (a - b).days
DaysBetween(a, b) == (a - b) \div MINUTES_PER_DAY

\* date.replace(hour = hour, minute = 0, second = 0, microsecond = 0)
ReplaceKeepingMinutes(dt, hour) ==
    (dt \div MINUTES_PER_DAY) * MINUTES_PER_DAY + hour * 60 + (dt % 60)

ReplaceHour(dt, hour) == (dt \div MINUTES_PER_DAY) * MINUTES_PER_DAY + hour * 60

\* commit_date.isoformat() + "Z"
IsoZ(dt) ==
    [date   |-> dt \div MINUTES_PER_DAY,
     hour   |-> (dt % MINUTES_PER_DAY) \div 60,
     minute |-> dt % 60,
     tz     |-> "Z"]

\* The calendar date of a day number of the year 2024 (day 0 is January 1).
MonthLengths2024 == <<31, 29, 31, 30, 31, 30, 31, 31, 30, 31, 30, 31>>

RECURSIVE CivilDate2024(_, _)
CivilDate2024(day, month) ==
    IF day < MonthLengths2024[month]
    THEN [year |-> 2024, month |-> month, day |-> day + 1]
    ELSE CivilDate2024(day - MonthLengths2024[month], month + 1)

\* ------------------------------------------------------------------------
\* matrix_to_dates
\* ------------------------------------------------------------------------
CellDateByColumn(start, row, col) == start + Days(col * 6 + row)

\* start_date + timedelta(days = col * 7 + row)
CellDate(start, row, col) == start + Days(col * 7 + row)

\* for col in range(52), within one row: the dates of the on cells
RECURSIVE CollectRow(_, _, _, _)
CollectRow(m, start, row, col) ==
    IF col = COLS THEN <<>>
    ELSE (IF m[row][col] = 1 THEN <<CellDate(start, row, col)>> ELSE <<>>)
         \o CollectRow(m, start, row, col + 1)

\* for row in range(7)
RECURSIVE CollectDates(_, _, _)
CollectDates(m, start, row) ==
    IF row = ROWS THEN <<>>
    ELSE CollectRow(m, start, row, 0) \o CollectDates(m, start, row + 1)

unsorted(s) == s

\* x inserted after the elements of the ascending list s that are <= x
InsertSorted(s, x) ==
    LET k == Cardinality({j \in 1 .. Len(s) : s[j] <= x})
    IN  SubSeq(s, 1, k) \o <<x>> \o SubSeq(s, k + 1, Len(s))

\* The elements of s inserted into acc from the first to the last; the list
\* is walked by halves, each half being finished before the next begins.
RECURSIVE SortLoop(_, _)
SortLoop(acc, s) ==
    IF s = <<>> THEN acc
    ELSE IF Len(s) = 1 THEN InsertSorted(acc, s[1])
    ELSE CHOOSE r \in
            {SortLoop(after, rest) :
                after \in {SortLoop(acc, SubSeq(s, 1, Len(s) \div 2))},
                rest  \in {SubSeq(s, Len(s) \div 2 + 1, Len(s))}} : TRUE

\* sorted(): a stable ascending sort, by insertion
sorted(s) == SortLoop(<<>>, s)

matrix_to_dates(m, start) == sorted(CollectDates(m, start, 0))

\* ------------------------------------------------------------------------
\* visualize_dates
\* ------------------------------------------------------------------------
MarkDateNarrow(m, date, start) ==
    LET days_diff == DaysBetween(date, start)
        col == days_diff \div 7
        row == days_diff % 7
    IN  IF 0 <= col /\ col < COLS - 1 /\ 0 <= row /\ row < ROWS
        THEN [m EXCEPT ![row][col] = 1]
        ELSE m

\* The body of the loop over the dates (lines 61-69).
MarkDate(m, date, start) ==
    LET days_diff == DaysBetween(date, start)
        col == days_diff \div 7
        row == days_diff % 7
    IN  IF 0 <= col /\ col < COLS /\ 0 <= row /\ row < ROWS
        THEN [m EXCEPT ![row][col] = 1]
        ELSE m

\* for date in dates: the dates are marked from the first to the last; the
\* list is walked by halves, each half being finished before the next begins.
RECURSIVE MarkDates(_, _, _)
MarkDates(m, ds, start) ==
    IF ds = <<>> THEN m
    ELSE IF Len(ds) = 1 THEN MarkDate(m, ds[1], start)
    ELSE CHOOSE r \in
            {MarkDates(after, rest, start) :
                after \in {MarkDates(m, SubSeq(ds, 1, Len(ds) \div 2), start)},
                rest  \in {SubSeq(ds, Len(ds) \div 2 + 1, Len(ds))}} : TRUE

\* the loop of lines 59-69 on a matrix of zeros
PreviewMatrix(ds, start) == MarkDates(EmptyMatrix, ds, start)

\* The seven printed lines: a filled square for a truthy cell
PrintMatrix(m) ==
    [row \in 1 .. ROWS |->
        [col \in 1 .. COLS |-> IF m[row - 1][col - 1] # 0 THEN "#" ELSE "."]]

\* ------------------------------------------------------------------------
\* Inputs
\* ------------------------------------------------------------------------
RECURSIVE Strings(_, _)
Strings(alphabet, n) ==
    IF n = 0 THEN {<<>>}
    ELSE LET shorter == Strings(alphabet, n - 1)
         IN  shorter \cup {Append(s, c) : s \in shorter, c \in alphabet}

RECURSIVE Repeat(_, _)
Repeat(c, n) == IF n = 0 THEN <<>> ELSE Append(Repeat(c, n - 1), c)

\* messages of the full pipeline
PipelineChars == {"I", "?"}

Messages == Strings(PipelineChars, MaxLen)

\* messages of the rendering: a run of H between a head and a tail; the
\* runs are short, or fill the grid nearly, or overflow it, or are long
\* enough for the first column to lie more than 52 columns left of the grid
RunLengths == {0, 1, NearRun, WrapRun, MaxRun}

RenderMessages ==
    {head \o Repeat("H", n) \o tail :
        head \in Strings(Chars, MaxHead),
        n \in RunLengths,
        tail \in Strings(Chars, MaxTail)}

\* 2024-11-03 13:37 is a Sunday, 2024-11-04 00:00 a Monday
Todays == {307 * MINUTES_PER_DAY + 817, 308 * MINUTES_PER_DAY}

\* 2024-01-07 00:00 (a Sunday), and the anchor main derives from
\* 2024-11-03 13:37
Anchors == {6 * MINUTES_PER_DAY,
            (307 - 357) * MINUTES_PER_DAY + 817}

\* arbitrary grids: at most MaxOn cells on, among the corners, the borders
\* and some inner cells
GridCells == {<<0, 0>>, <<0, 51>>, <<6, 0>>, <<6, 51>>,
              <<3, 10>>, <<1, 23>>, <<5, 23>>, <<2, 24>>}

SparseGrids ==
    {[row \in Rows |-> [col \in Cols |-> IF <<row, col>> \in on THEN 1 ELSE 0]] :
        on \in {c \in SUBSET GridCells : Cardinality(c) <= MaxOn}}

\* what git status --porcelain prints: nothing, or one line per changed file
StatusOutputs == {<<>>, <<" ", "M", " ", "f", "\n">>}

RECURSIVE Join(_)
Join(lines) ==
    IF lines = <<>> THEN <<>>
    ELSE IF Len(lines) = 1 THEN lines[1]
    ELSE lines[1] \o <<"\n">> \o Join(Tail(lines))

IdentityLines ==
    << <<"N", " ", "N">>, <<"n", "@">>, <<"M">>, <<"m", "@">>, <<"x">> >>

\* what git log --format=%an%n%ae%n%cn%n%ce prints: nothing (no commit), or
\* k lines, or four lines of which the first (the author name) is empty
LogOutputs ==
    {<<>>}
    \cup {Join(SubSeq(IdentityLines, 1, k)) \o <<"\n">> : k \in 0 .. 5}
    \cup {<<"\n">> \o Join(SubSeq(IdentityLines, 2, 4)) \o <<"\n">>}

\* ------------------------------------------------------------------------
\* main
\* ------------------------------------------------------------------------
\* while end_date.weekday() != 6: end_date += timedelta(days=1)
RECURSIVE NextSunday(_)
NextSunday(dt) ==
    IF Weekday(dt) = SUNDAY THEN dt ELSE NextSunday(dt + Days(1))

StartDate(now) == NextSunday(now) - Days(7 * WEEKS_BACK)

Fresh ==
    /\ message_width = 0
    /\ center_offset = 0
    /\ offset = 0
    /\ writes = <<>>
    /\ matrix = EmptyMatrix
    /\ dates = <<>>
    /\ preview = EmptyMatrix
    /\ printed = <<>>
    /\ status = <<>>
    /\ first_commit = <<>>
    /\ vcs = <<>>
    /\ error = "none"
    /\ result = "none"
    /\ di = 1
    /\ hi = 1

Init ==
    /\ message \in Messages
    /\ dry_run \in BOOLEAN
    /\ today \in Todays
    /\ start_date = 0
    /\ pc = "main"
    /\ prev = <<>>
    /\ runs = 1
    /\ Fresh

\* lines 183-191
MainAnchor ==
    /\ pc = "main"
    /\ start_date' = StartDate(today)
    /\ pc' = "word_to_matrix"
    /\ UNCHANGED <<message, dry_run, today, message_width, center_offset,
                   offset, writes, matrix, dates, preview, printed, status,
                   first_commit, vcs, error, result, di, hi, prev, runs>>

\* line 194
WordToMatrix ==
    /\ pc = "word_to_matrix"
    /\ \E r \in {word_to_matrix(message)} :
           /\ message_width' = r.message_width
           /\ center_offset' = r.center_offset
           /\ offset' = r.offset
           /\ writes' = r.writes
           /\ error' = r.error
           /\ matrix' = IF r.error = "none" THEN r.matrix ELSE matrix
           /\ pc' = IF r.error = "none" THEN "matrix_to_dates" ELSE "done"
    /\ UNCHANGED <<message, dry_run, today, start_date, dates, preview,
                   printed, status, first_commit, vcs, result, di, hi,
                   prev, runs>>

\* line 197
MatrixToDates ==
    /\ pc = "matrix_to_dates"
    /\ dates' = matrix_to_dates(matrix, start_date)
    /\ pc' = "visualize_dates"
    /\ UNCHANGED <<message, dry_run, today, start_date, message_width,
                   center_offset, offset, writes, matrix, preview, printed,
                   status, first_commit, vcs, error, result, di, hi, prev,
                   runs>>

\* line 200
VisualizeDates ==
    /\ pc = "visualize_dates"
    /\ preview' = PreviewMatrix(dates, start_date)
    /\ printed' = PrintMatrix(preview')
    /\ pc' = "dry_run"
    /\ UNCHANGED <<message, dry_run, today, start_date, message_width,
                   center_offset, offset, writes, matrix, dates, status,
                   first_commit, vcs, error, result, di, hi, prev, runs>>

EntersDriverAlways(flag) == TRUE

\* if dry_run: return []
EntersDriver(flag) == ~flag

\* lines 202-206
DryRunCheck ==
    /\ pc = "dry_run"
    /\ IF EntersDriver(dry_run)
       THEN pc' = "git_status" /\ result' = result
       ELSE pc' = "done" /\ result' = <<>>
    /\ UNCHANGED <<message, dry_run, today, start_date, message_width,
                   center_offset, offset, writes, matrix, dates, preview,
                   printed, status, first_commit, vcs, error, di, hi, prev,
                   runs>>

\* ------------------------------------------------------------------------
\* create_git_contributions
\* ------------------------------------------------------------------------
\* subprocess.run(["git", ...]) with the inherited environment
Run(cmd) == [cmd |-> cmd, env |-> <<>>, m |-> <<>>]

HasChangesNever(st) == FALSE

\* if status:
HasChanges(st) == st # <<>>

IdentityResolvedAtLeast(fc) == Len(fc) >= 4

\* the negation of: if len(first_commit) != 4
IdentityResolved(fc) == Len(fc) = 4

commit_hours == <<4, 5, 6, 7, 8, 9, 10, 11, 12, 13, 14, 15, 16, 17, 18, 19, 20>>

\* lines 149-153 and 165-166
CommitEnv(fc, date_str) ==
    [GIT_AUTHOR_NAME     |-> fc[1],
     GIT_AUTHOR_EMAIL    |-> fc[2],
     GIT_COMMITTER_NAME  |-> fc[3],
     GIT_COMMITTER_EMAIL |-> fc[4],
     GIT_AUTHOR_DATE     |-> date_str,
     GIT_COMMITTER_DATE  |-> date_str]

\* lines 104-111
GitStatus ==
    /\ pc = "git_status"
    /\ \E out \in StatusOutputs :
          /\ status' = Strip(out)
          /\ vcs' = Append(vcs, Run("status --porcelain"))
          /\ IF HasChanges(Strip(out))
             THEN error' = "RuntimeError: uncommitted changes" /\ pc' = "done"
             ELSE error' = error /\ pc' = "git_log"
    /\ UNCHANGED <<message, dry_run, today, start_date, message_width,
                   center_offset, offset, writes, matrix, dates, preview,
                   printed, first_commit, result, di, hi, prev, runs>>

\* lines 114-127
GitLog ==
    /\ pc = "git_log"
    /\ \E out \in LogOutputs :
          /\ first_commit' = Split(Strip(out))
          /\ vcs' = Append(vcs, Run("log --reverse --format=%an%n%ae%n%cn%n%ce -1"))
          /\ IF IdentityResolved(Split(Strip(out)))
             THEN error' = error /\ pc' = "git_branch"
             ELSE error' = "RuntimeError: no identity" /\ pc' = "done"
    /\ UNCHANGED <<message, dry_run, today, start_date, message_width,
                   center_offset, offset, writes, matrix, dates, preview,
                   printed, status, result, di, hi, prev, runs>>

\* lines 130-134
GitBranchDelete ==
    /\ pc = "git_branch"
    /\ vcs' = Append(vcs, Run("branch -D gh-pages"))
    /\ pc' = "git_checkout"
    /\ UNCHANGED <<message, dry_run, today, start_date, message_width,
                   center_offset, offset, writes, matrix, dates, preview,
                   printed, status, first_commit, error, result, di, hi,
                   prev, runs>>

\* lines 137-141
GitCheckoutOrphan ==
    /\ pc = "git_checkout"
    /\ vcs' = Append(vcs, Run("checkout --orphan gh-pages"))
    /\ pc' = "git_rm"
    /\ UNCHANGED <<message, dry_run, today, start_date, message_width,
                   center_offset, offset, writes, matrix, dates, preview,
                   printed, status, first_commit, error, result, di, hi,
                   prev, runs>>

\* lines 144-146, and the entry of the loop of line 158
GitRm ==
    /\ pc = "git_rm"
    /\ vcs' = Append(vcs, Run("rm -rf ."))
    /\ IF dates = <<>>
       THEN pc' = "done" /\ result' = dates
       ELSE pc' = "git_commit" /\ result' = result
    /\ UNCHANGED <<message, dry_run, today, start_date, message_width,
                   center_offset, offset, writes, matrix, dates, preview,
                   printed, status, first_commit, error, di, hi, prev, runs>>

\* lines 158-178: one iteration of the inner loop
GitCommit ==
    /\ pc = "git_commit"
    /\ LET commit_date == ReplaceHour(dates[di], commit_hours[hi])
           date_str    == IsoZ(commit_date)
       IN  vcs' = Append(vcs, [cmd |-> "commit --allow-empty",
                               env |-> CommitEnv(first_commit, date_str),
                               m   |-> date_str])
    /\ IF hi < Len(commit_hours)
       THEN hi' = hi + 1 /\ di' = di /\ pc' = pc /\ result' = result
       ELSE /\ hi' = 1
            /\ di' = di + 1
            /\ IF di < Len(dates)
               THEN pc' = pc /\ result' = result
               ELSE pc' = "done" /\ result' = dates
    /\ UNCHANGED <<message, dry_run, today, start_date, message_width,
                   center_offset, offset, writes, matrix, dates, preview,
                   printed, status, first_commit, error, prev, runs>>

\* The program is started again with the same message (lines 211-222).
Restart ==
    /\ pc = "done"
    /\ runs < MaxRuns
    /\ prev' = <<[today |-> today, dry_run |-> dry_run, printed |-> printed]>>
    /\ runs' = runs + 1
    /\ today' \in Todays
    /\ dry_run' \in BOOLEAN
    /\ start_date' = 0
    /\ pc' = "main"
    /\ message' = message
    /\ message_width' = 0
    /\ center_offset' = 0
    /\ offset' = 0
    /\ writes' = <<>>
    /\ matrix' = EmptyMatrix
    /\ dates' = <<>>
    /\ preview' = EmptyMatrix
    /\ printed' = <<>>
    /\ status' = <<>>
    /\ first_commit' = <<>>
    /\ vcs' = <<>>
    /\ error' = "none"
    /\ result' = "none"
    /\ di' = 1
    /\ hi' = 1

Next ==
    \/ MainAnchor
    \/ WordToMatrix
    \/ MatrixToDates
    \/ VisualizeDates
    \/ DryRunCheck
    \/ GitStatus
    \/ GitLog
    \/ GitBranchDelete
    \/ GitCheckoutOrphan
    \/ GitRm
    \/ GitCommit
    \/ Restart

Spec == Init /\ [][Next]_vars

\* ------------------------------------------------------------------------
\* The rendering and the date mapping on their own inputs
\* ------------------------------------------------------------------------
InitRender ==
    /\ message \in RenderMessages
    /\ start_date \in Anchors
    /\ pc = "word_to_matrix"
    /\ dry_run = TRUE
    /\ today = 0
    /\ prev = <<>>
    /\ runs = 1
    /\ Fresh

NextRender ==
    \/ WordToMatrix
    \/ MatrixToDates
    \/ VisualizeDates

SpecRender == InitRender /\ [][NextRender]_vars

InitGrid ==
    /\ matrix \in SparseGrids
    /\ start_date \in Anchors
    /\ pc = "matrix_to_dates"
    /\ message = <<>>
    /\ dry_run = TRUE
    /\ today = 0
    /\ prev = <<>>
    /\ runs = 1
    /\ message_width = 0
    /\ center_offset = 0
    /\ offset = 0
    /\ writes = <<>>
    /\ dates = <<>>
    /\ preview = EmptyMatrix
    /\ printed = <<>>
    /\ status = <<>>
    /\ first_commit = <<>>
    /\ vcs = <<>>
    /\ error = "none"
    /\ result = "none"
    /\ di = 1
    /\ hi = 1

NextGrid ==
    \/ MatrixToDates
    \/ VisualizeDates

SpecGrid == InitGrid /\ [][NextGrid]_vars

\* ------------------------------------------------------------------------
\* Properties
\* ------------------------------------------------------------------------
Rendered == pc # "main" /\ pc # "word_to_matrix"

HasRecognized(m) == \E i \in 1 .. Len(m) : Recognized(ToUpper(m[i]))

OnCells(m) == {c \in Rows \X Cols : m[c[1]][c[2]] = 1}

Commits == SelectSeq(vcs, LAMBDA e : e.cmd = "commit --allow-empty")

Instant(date_str) ==
    date_str.date * MINUTES_PER_DAY + date_str.hour * 60 + date_str.minute

Remove(m, i) == SubSeq(m, 1, i - 1) \o SubSeq(m, i + 1, Len(m))

\* C1: once a message with a recognized character is rendered, the offset
\* before painting is ceil((52 - width) / 2) for the width of the uppercased
\* message, the first assignment is that of the top-left bit of the first
\* recognized glyph at column offset of row 1, width 40 and width 41 both give
\* 6, "HI" has width 7 and H's top-left bit at column 23 of row 1, and for a
\* width of at most 52 the left margin is the right margin or one more.
C1_CenteringRoundsUp ==
    (Rendered /\ HasRecognized(message)) =>
        /\ message_width = calculate_message_width(Upper(message))
        /\ 2 * center_offset \in {COLS - message_width, COLS - message_width + 1}
        /\ writes # <<>> =>
              /\ writes[1].start = center_offset
              /\ writes[1].glyphCol = 0
              /\ writes[1].row = 1
              /\ \A j \in 1 .. (writes[1].letter - 1) :
                    ~Recognized(ToUpper(message[j]))
              /\ center_offset >= 0 => writes[1].col = center_offset
        /\ message_width = 40 => center_offset = 6
        /\ message_width = 41 => center_offset = 6
        /\ Upper(message) = <<"H", "I">> =>
              /\ message_width = 7
              /\ center_offset = 23
              /\ writes[1].col = 23 /\ writes[1].row = 1
              /\ matrix[1][23] = ALPHABET["H"][1][1]
        /\ message_width <= COLS =>
              (center_offset - (COLS - center_offset - message_width)) \in {0, 1}

C1_Witness ==
    /\ Rendered
    /\ Upper(message) = <<"H", "I">>
    /\ center_offset = 23
    /\ matrix[1][23] = 1
    /\ matrix[1][22] = 0

\* C2: every assignment of word_to_matrix writes the bit (glyphRow, glyphCol)
\* to the cell (glyphRow + 1, start + glyphCol), where start is the running
\* offset of the character and 0 <= start + glyphCol < 52, the rendering ends
\* without an exception, and the offset has advanced by glyph width + 1 for
\* every recognized character.
C2_OnlyColumnsInsideAreWritten ==
    Rendered =>
        /\ \A k \in 1 .. Len(writes) :
              /\ writes[k].start =
                    center_offset
                    + WidthLoop(SubSeq(Upper(message), 1, writes[k].letter - 1), 0)
              /\ writes[k].row = writes[k].glyphRow + 1
              /\ 0 <= writes[k].start + writes[k].glyphCol
              /\ writes[k].start + writes[k].glyphCol < COLS
              /\ writes[k].col = writes[k].start + writes[k].glyphCol
        /\ error = "none"
        /\ offset = center_offset + WidthLoop(Upper(message), 0)

\* C3: the list matrix_to_dates returns for a grid of 0/1 cells is strictly
\* ascending, has one element per on cell, and holds exactly the dates
\* anchor + (col * 7 + row) days of the on cells; the anchor 2024-01-07 with
\* the single on cell (3, 10) gives 2024-03-20.
C3_DatesAscendingOnePerCell ==
    (pc = "visualize_dates" \/ pc = "dry_run") =>
        /\ \A k \in 1 .. (Len(dates) - 1) : dates[k] < dates[k + 1]
        /\ Len(dates) = Cardinality(OnCells(matrix))
        /\ {dates[k] : k \in 1 .. Len(dates)} =
              {start_date + (c[2] * 7 + c[1]) * MINUTES_PER_DAY : c \in OnCells(matrix)}
        /\ (start_date = 6 * MINUTES_PER_DAY /\ OnCells(matrix) = {<<3, 10>>}) =>
              /\ CivilDate2024(start_date \div MINUTES_PER_DAY, 1)
                    = [year |-> 2024, month |-> 1, day |-> 7]
              /\ Len(dates) = 1
              /\ dates[1] = start_date + 73 * MINUTES_PER_DAY
              /\ CivilDate2024(dates[1] \div MINUTES_PER_DAY, 1)
                    = [year |-> 2024, month |-> 3, day |-> 20]

C3_Witness ==
    /\ pc = "visualize_dates"
    /\ OnCells(matrix) = {<<0, 51>>, <<6, 0>>}
    /\ Len(dates) = 2
    /\ dates[1] = start_date + 6 * MINUTES_PER_DAY

\* C4: the commits created so far are, in order, the commits of the dates in
\* order and, within a date, of the hours 4..20 in order: commit k is on the
\* day of date (k - 1) div 17 + 1 at hour 4 + (k - 1) mod 17, minute 0, its
\* author date, committer date and message are that instant, the instants are
\* strictly ascending, the last commit of a date is on an earlier day than
\* the first commit of the next date, the first commit is on the earliest
\* date, and a driver that has finished has created 17 commits per date.
C4_CommitsDateMajorHourMinor ==
    \A cs \in {Commits} :
        /\ Len(cs) <= 17 * Len(dates)
        /\ (pc = "done" /\ ~dry_run /\ error = "none") =>
              Len(cs) = 17 * Len(dates)
        /\ \A k \in 1 .. Len(cs) :
              /\ cs[k].env.GIT_AUTHOR_DATE =
                    [date   |-> dates[((k - 1) \div 17) + 1] \div MINUTES_PER_DAY,
                     hour   |-> 4 + ((k - 1) % 17),
                     minute |-> 0,
                     tz     |-> "Z"]
              /\ cs[k].env.GIT_COMMITTER_DATE = cs[k].env.GIT_AUTHOR_DATE
              /\ cs[k].m = cs[k].env.GIT_AUTHOR_DATE
        /\ \A k \in 1 .. (Len(cs) - 1) :
              Instant(cs[k].env.GIT_AUTHOR_DATE) < Instant(cs[k + 1].env.GIT_AUTHOR_DATE)
        /\ \A k \in 1 .. (Len(cs) - 1) :
              (k % 17 = 0) =>
                 cs[k].env.GIT_AUTHOR_DATE.date < cs[k + 1].env.GIT_AUTHOR_DATE.date
        /\ cs # <<>> =>
              cs[1].env.GIT_AUTHOR_DATE.date = dates[1] \div MINUTES_PER_DAY

C4_Witness ==
    /\ pc = "done"
    /\ Len(dates) >= 2
    /\ Len(Commits) = 17 * Len(dates)
    /\ today % 60 # 0

\* C5: the matrix visualize_dates rebuilds from the dates of a grid that
\* word_to_matrix produced is that grid, cell for cell.
C5_PreviewIsTheGrid ==
    pc = "dry_run" => preview = matrix

C5_Witness ==
    /\ pc = "dry_run"
    /\ preview = matrix
    /\ \E row \in Rows : matrix[row][51] = 1
    /\ \E row \in Rows : matrix[row][0] = 1

\* C6: the first git subprocess of an invocation is git status, and when it
\* prints anything the invocation ends with the RuntimeError having started
\* no other git subprocess: no branch -D, no checkout, no rm, no commit.
C6_DirtyTreeAbortsFirst ==
    /\ vcs # <<>> => vcs[1].cmd = "status --porcelain"
    /\ (vcs # <<>> /\ status # <<>>) =>
          /\ pc = "done"
          /\ error = "RuntimeError: uncommitted changes"
          /\ Len(vcs) = 1

C6_Witness ==
    /\ error = "RuntimeError: uncommitted changes"
    /\ dates # <<>>
    /\ Len(vcs) = 1

\* C7: when git log's stripped, split output has other than four fields the
\* invocation ends with the RuntimeError having started only git status and
\* git log; every commit carries the four fields, unchanged and in order, as
\* author name, author email, committer name and committer email.
C7_IdentityNeedsFourFields ==
    /\ (Len(vcs) >= 2 /\ Len(first_commit) # 4) =>
          /\ pc = "done"
          /\ error = "RuntimeError: no identity"
          /\ Len(vcs) = 2
    /\ \A k \in 1 .. Len(vcs) :
          vcs[k].cmd = "commit --allow-empty" =>
             /\ Len(first_commit) = 4
             /\ first_commit = SubSeq(IdentityLines, 1, 4)
             /\ vcs[k].env.GIT_AUTHOR_NAME = first_commit[1]
             /\ vcs[k].env.GIT_AUTHOR_EMAIL = first_commit[2]
             /\ vcs[k].env.GIT_COMMITTER_NAME = first_commit[3]
             /\ vcs[k].env.GIT_COMMITTER_EMAIL = first_commit[4]

C7_Witness ==
    /\ error = "RuntimeError: no identity"
    /\ first_commit = << <<>> >>
    /\ Len(vcs) = 2

\* C8: an invocation with dry_run starts no git subprocess, and an
\* invocation prints what the previous invocation printed when that one had
\* the same message and the same today and the other value of dry_run.
C8_DryRunSamePreviewNoVcs ==
    /\ dry_run =>
          /\ vcs = <<>>
          /\ pc \in {"main", "word_to_matrix", "matrix_to_dates",
                     "visualize_dates", "dry_run", "done"}
    /\ (/\ prev # <<>>
        /\ printed # <<>>) =>
          ((prev[1].today = today /\ prev[1].dry_run # dry_run) =>
              printed = prev[1].printed)

C8_Witness ==
    /\ prev # <<>>
    /\ prev[1].dry_run
    /\ ~dry_run
    /\ prev[1].today = today
    /\ pc = "done"
    /\ Len(vcs) > 5
    /\ printed = prev[1].printed

\* C9: the width computed for a message without a recognized character is 0.
C9_EmptyWidthIsZero ==
    (Rendered /\ ~HasRecognized(message)) => message_width = 0

\* C10: a message without a recognized character renders without an
\* exception to the grid of zeros, and removing an unrecognized character
\* from a message changes nothing of the rendering: width, offsets, grid and
\* outcome are those of the message without that character.
C10_UnrecognizedCharactersAreSkipped ==
    Rendered =>
        /\ ~HasRecognized(message) =>
              /\ error = "none"
              /\ writes = <<>>
              /\ matrix = EmptyMatrix
        /\ \A i \in 1 .. Len(message) :
              ~Recognized(ToUpper(message[i])) =>
                 \A r \in {word_to_matrix(Remove(message, i))} :
                    /\ r.error = error
                    /\ r.message_width = message_width
                    /\ r.center_offset = center_offset
                    /\ r.offset = offset
                    /\ error = "none" => r.matrix = matrix

C10_Witness ==
    /\ Rendered
    /\ error = "none"
    /\ Len(message) >= 2
    /\ ~Recognized(ToUpper(message[1]))
    /\ HasRecognized(message)
    /\ matrix # EmptyMatrix

====
